---- MODULE Spec2Model ----
(***************************************************************************)
(* The AgentInventory service (mcp-servers/mcp-agent-inventory/server.py): *)
(* the in-memory registry of agent metadata, the per-agent ledger of       *)
(* execution records, the recomputation of the derived averages on write   *)
(* and the usage statistics (counts, means, percentiles) on read.          *)
(*                                                                         *)
(* Numbers.  The inputs (cost_usd, runtime_ms, token counts, percentile)   *)
(* are integers.  A result that Python holds in a float is held as an      *)
(* exact rational [n, d], and a value produced by round(x, k) is held as   *)
(* the integer x * 10^k (cost in 10^-6 USD, latency and token means in     *)
(* 10^-2).  Python's round() is round-half-to-even on the decimal value;   *)
(* with integer inputs and samples this short no mean or percentile lies   *)
(* on a tie that the float's binary representation could tip.              *)
(* An Optional value is <<>> for None and <<v>> for v.                     *)
(***************************************************************************)
EXTENDS Integers, Sequences, FiniteSets, TLC

\* ------------------------------------------------------------------ bounds

\* The most execution records the ledger holds in total (all agents).
MaxRecords == 3
\* The longest sample handed to calculate_percentile on its own.
MaxData == 4

\* ------------------------------------------------------------ input domains

\* Agent identifiers, listed in ascending (lexicographic) order.
AgentOrder == <<"a1", "a2">>
Agents == {AgentOrder[i] : i \in 1..Len(AgentOrder)}
Rank(a) == CHOOSE i \in 1..Len(AgentOrder) : AgentOrder[i] = a

None == <<>>
Some(v) == <<v>>
IsNone(o) == o = <<>>
Val(o) == o[1]
Opt(S) == {None} \cup {Some(v) : v \in S}

Descriptions == {"d1", "d2"}
CostValues == {1, 2}
RuntimeValues == {100, 200, 300}
TokenValues == {10, 11}
SuppliedCosts == {5}
SuppliedLatencies == {7}
ExecutionIds == {"e1"}
\* values datetime.now() can yield
Clock == {"t1"}
Percentiles == 0..100

\* digits kept by round(avg_cost, 6), round(avg_latency, 2) and by the
\* round(..., 2) of the usage statistics
CostDigits == 6
LatencyDigits == 2
UsageDigits == 2

\* ------------------------------------------------------------------ state

VARIABLES
  agent_metadata,     \* dict agent id -> metadata record
  metadata_keys,      \* the keys of agent_metadata in the dict's insertion order
  execution_records,  \* dict agent id -> list of execution records
  response,           \* the latest request and what its handler returned or raised
  ghost,              \* per agent id: bookkeeping of the requests applied so far
  mcp,                \* what the JSON-RPC endpoint made of the latest request, if
                      \* it came through it
  event_loop          \* the handler coroutines in flight and the one that is running

vars ==
  <<agent_metadata, metadata_keys, execution_records, response, ghost, mcp, event_loop>>
store == <<agent_metadata, metadata_keys, execution_records>>

\* ------------------------------------------------------------- arithmetic

RECURSIVE Pow10(_)
Pow10(k) == IF k = 0 THEN 1 ELSE 10 * Pow10(k - 1)

\* An exact rational n/d, d > 0: the value a Python float stands for.
Rat(n, d) == [n |-> n, d |-> d]
RatOfInt(x) == Rat(x, 1)

\* A variant that truncates (floor) instead of rounding.
RoundDown(num, den) == num \div den

\* Python's round half to even of num/den (den > 0), as an integer.
RoundHalfEven(num, den) ==
  LET q == num \div den
      r == num % den
  IN  IF 2 * r < den THEN q
      ELSE IF 2 * r > den THEN q + 1
      ELSE IF q % 2 = 0 THEN q ELSE q + 1

\* round(x, digits), as the integer x * 10^digits
Round(x, digits) == RoundHalfEven(x.n * Pow10(digits), x.d)

RECURSIVE SumSeq(_)
SumSeq(s) == IF s = <<>> THEN 0 ELSE s[1] + SumSeq(Tail(s))

\* [f(r) for r in records if f(r) is not None], for the field named fld
RECURSIVE NonNull(_, _)
NonNull(records, fld) ==
  IF records = <<>> THEN <<>>
  ELSE IF IsNone(records[1][fld]) THEN NonNull(Tail(records), fld)
  ELSE <<Val(records[1][fld])>> \o NonNull(Tail(records), fld)

\* sum(xs) / len(xs) for a non-empty list
MeanOf(xs) == Rat(SumSeq(xs), Len(xs))

\* sorted(data): ascending, by insertion
RECURSIVE InsertSorted(_, _)
InsertSorted(x, s) ==
  IF s = <<>> THEN <<x>>
  ELSE IF x < s[1] THEN <<x>> \o s
  ELSE <<s[1]>> \o InsertSorted(x, Tail(s))

\* A variant that sorts the sample in descending order.
RECURSIVE InsertSortedDescending(_, _)
InsertSortedDescending(x, s) ==
  IF s = <<>> THEN <<x>>
  ELSE IF x > s[1] THEN <<x>> \o s
  ELSE <<s[1]>> \o InsertSortedDescending(x, Tail(s))

RECURSIVE SortedDescending(_)
SortedDescending(data) ==
  IF data = <<>> THEN <<>>
  ELSE InsertSortedDescending(data[1], SortedDescending(Tail(data)))

\* A variant that leaves the sample in the order it came in.
Unsorted(data) == data

RECURSIVE Sorted(_)
Sorted(data) ==
  IF data = <<>> THEN <<>> ELSE InsertSorted(data[1], Sorted(Tail(data)))

\* Reading list[i] (0-based, i >= 0) as Python does: an IndexError past the end.
ListGet(list, i) ==
  IF i < Len(list) THEN [ok |-> TRUE, v |-> list[i + 1]]
  ELSE [ok |-> FALSE, v |-> 0]

\* An off-by-one variant: the fractional rank taken over n instead of n - 1.
CalculatePercentileRankOverN(data, percentile) ==
  IF data = <<>> THEN [ok |-> TRUE, v |-> RatOfInt(0)]
  ELSE
    LET sorted_data == Sorted(data)
        idx100 == percentile * Len(sorted_data)
        int_index == idx100 \div 100
        frac100 == idx100 % 100
        lower == ListGet(sorted_data, int_index)
        upper == ListGet(sorted_data, int_index + 1)
    IN  IF frac100 = 0
        THEN [ok |-> lower.ok, v |-> RatOfInt(lower.v)]
        ELSE [ok |-> lower.ok /\ upper.ok,
              v |-> Rat(lower.v * 100 + (upper.v - lower.v) * frac100, 100)]

\* A variant without the interpolation: the element at the floor of the rank.
CalculatePercentileLowerRank(data, percentile) ==
  IF data = <<>> THEN [ok |-> TRUE, v |-> RatOfInt(0)]
  ELSE
    LET sorted_data == Sorted(data)
        int_index == (percentile * (Len(sorted_data) - 1)) \div 100
        lower == ListGet(sorted_data, int_index)
    IN  [ok |-> lower.ok, v |-> RatOfInt(lower.v)]

\* calculate_percentile(data, percentile): index = (percentile / 100.0) *
\* (len - 1) is idx100 / 100; ok = FALSE stands for a raised IndexError.
CalculatePercentile(data, percentile) ==
  IF data = <<>> THEN [ok |-> TRUE, v |-> RatOfInt(0)]
  ELSE
    LET sorted_data == Sorted(data)
        idx100 == percentile * (Len(sorted_data) - 1)
        int_index == idx100 \div 100
        frac100 == idx100 % 100
        lower == ListGet(sorted_data, int_index)
        upper == ListGet(sorted_data, int_index + 1)
    IN  IF frac100 = 0
        THEN [ok |-> lower.ok, v |-> RatOfInt(lower.v)]
        ELSE [ok |-> lower.ok /\ upper.ok,
              v |-> Rat(lower.v * 100 + (upper.v - lower.v) * frac100, 100)]

\* ------------------------------------------------------------ the requests

\* The body of POST /record_execution before validation: every field but
\* agent_id may be left out (None).
ExecutionDefaults(a) ==
  [agent_id |-> a, execution_id |-> None, timestamp |-> None,
   success |-> None, runtime_ms |-> None, input_tokens |-> None,
   output_tokens |-> None, total_tokens |-> None, cost_usd |-> None,
   error_message |-> None]

\* The bodies submitted where the registry and the ledger are studied.
StorePayloads(a) ==
  {ExecutionDefaults(a),
   [ExecutionDefaults(a) EXCEPT !.cost_usd = Some(1), !.runtime_ms = Some(100),
                                !.success = Some(FALSE)],
   [ExecutionDefaults(a) EXCEPT !.execution_id = Some("e1"), !.cost_usd = Some(2)]}

\* The bodies submitted where the derived averages are studied.
AveragePayloads(a) ==
  {[ExecutionDefaults(a) EXCEPT !.cost_usd = c] : c \in Opt(CostValues)}
  \cup {[ExecutionDefaults(a) EXCEPT !.runtime_ms = Some(r)] : r \in {100, 200}}

\* The bodies submitted where the usage statistics are studied.
UsagePayloads(a) ==
  {[ExecutionDefaults(a) EXCEPT !.runtime_ms = r] : r \in Opt(RuntimeValues)}
  \cup {[ExecutionDefaults(a) EXCEPT !.success = Some(s)] : s \in BOOLEAN}
  \cup {[ExecutionDefaults(a) EXCEPT !.input_tokens = Some(i)] : i \in TokenValues}
  \cup {[ExecutionDefaults(a) EXCEPT !.output_tokens = Some(10)]}

\* The bodies submitted where the appends to the ledger are studied: fields
\* left null, an execution_id sent twice, negative tokens and cost.
LedgerPayloads(a) ==
  {ExecutionDefaults(a),
   [ExecutionDefaults(a) EXCEPT !.execution_id = Some("e1")],
   [ExecutionDefaults(a) EXCEPT !.execution_id = Some("e1"), !.cost_usd = Some(-1),
                                !.input_tokens = Some(-10), !.total_tokens = Some(-10)]}

\* A variant whose success defaults to False.
AgentExecutionDefaultFalse(payload) ==
  [payload EXCEPT !.success = IF IsNone(@) THEN FALSE ELSE Val(@)]

\* class AgentExecution: the validated request, success defaulting to True
AgentExecution(payload) ==
  [payload EXCEPT !.success = IF IsNone(@) THEN TRUE ELSE Val(@)]

\* class AgentMetadata: the bodies of POST /register_agent
StoreMetadata(a) ==
  {[id |-> a, description |-> "d1", avg_cost |-> None, avg_latency |-> None],
   [id |-> a, description |-> "d2", avg_cost |-> Some(5), avg_latency |-> Some(7)]}

AverageMetadata(a) ==
  [id : {a}, description : Descriptions,
   avg_cost : Opt(SuppliedCosts), avg_latency : Opt(SuppliedLatencies)]

UsageMetadata(a) ==
  {[id |-> a, description |-> "d1", avg_cost |-> None, avg_latency |-> None]}

\* a caller's float, in the units the stored averages are held in
CostUnits(o) == IF IsNone(o) THEN None ELSE Some(Val(o) * Pow10(CostDigits))
LatencyUnits(o) == IF IsNone(o) THEN None ELSE Some(Val(o) * Pow10(LatencyDigits))

\* ---------------------------------------------------------------- the store

\* dict.get(key, []) / key in dict
Records(recs, agent_id) == IF agent_id \in DOMAIN recs THEN recs[agent_id] ELSE <<>>

\* A variant that empties the dict.
DictClear(d, key) == [k \in {} |-> d[k]]

\* del d[key]
DictDel(d, key) == [k \in DOMAIN d \ {key} |-> d[k]]
\* d[key] = value
DictSet(d, key, value) == [k \in DOMAIN d \cup {key} |-> IF k = key THEN value ELSE d[k]]
\* the key order of a dict after d[key] = value / del d[key]
KeysSet(keys, key) ==
  IF \E i \in 1..Len(keys) : keys[i] = key THEN keys ELSE Append(keys, key)
KeysDel(keys, key) == SelectSeq(keys, LAMBDA k : k # key)

\* A variant that averages over every record, a None counting as 0.
AverageOverAllRecords(records, fld) ==
  LET xs == NonNull(records, fld)
  IN  IF xs # <<>> THEN Some(Rat(SumSeq(xs), Len(records))) ELSE None

\* sum(xs) / len(xs) if xs else None, over the non-None values of one field
AverageOf(records, fld) ==
  LET xs == NonNull(records, fld)
  IN  IF xs # <<>> THEN Some(MeanOf(xs)) ELSE None

\* A variant that stores the result also when it is None.
WriteAverageAlways(old, avg, digits) ==
  IF IsNone(avg) THEN None ELSE Some(Round(Val(avg), digits))

\* A variant that writes the mean only where no value is stored yet.
WriteAverageIfAbsent(old, avg, digits) ==
  IF IsNone(avg) \/ ~IsNone(old) THEN old ELSE Some(Round(Val(avg), digits))

\* if avg is not None: metadata[field] = round(avg, digits)
WriteAverage(old, avg, digits) ==
  IF IsNone(avg) THEN old ELSE Some(Round(Val(avg), digits))

\* A variant that stores the latency average only when there is a cost average.
UpdateAgentAveragesCoupled(meta, recs, agent_id) ==
  LET records == Records(recs, agent_id)
      avg_cost == AverageOf(records, "cost_usd")
      avg_latency == IF IsNone(avg_cost) THEN None ELSE AverageOf(records, "runtime_ms")
  IN  IF records = <<>> \/ agent_id \notin DOMAIN meta THEN meta
      ELSE [meta EXCEPT ![agent_id] =
              [@ EXCEPT !.avg_cost = WriteAverage(@, avg_cost, CostDigits),
                        !.avg_latency = WriteAverage(@, avg_latency, LatencyDigits)]]

\* update_agent_averages(agent_id): the metadata dict afterwards
UpdateAgentAverages(meta, recs, agent_id) ==
  LET records == Records(recs, agent_id)
  IN  IF records = <<>> THEN meta
      ELSE
        LET avg_cost == AverageOf(records, "cost_usd")
            avg_latency == AverageOf(records, "runtime_ms")
        IN  IF agent_id \in DOMAIN meta
            THEN [meta EXCEPT ![agent_id] =
                    [@ EXCEPT !.avg_cost = WriteAverage(@, avg_cost, CostDigits),
                              !.avg_latency = WriteAverage(@, avg_latency, LatencyDigits)]]
            ELSE meta

\* The metadata record record_execution creates: it has no avg_cost and no
\* avg_latency key, which every reader takes with .get() and so sees as None.
DefaultMetadata(agent_id) ==
  [id |-> agent_id, description |-> "Agent " \o agent_id,
   avg_cost |-> None, avg_latency |-> None]

\* The record record_execution appends; now stands for datetime.now().
ExecutionData(execution, now) ==
  [execution_id |-> IF IsNone(execution.execution_id)
                    THEN execution.agent_id \o "_" \o now
                    ELSE Val(execution.execution_id),
   timestamp |-> IF IsNone(execution.timestamp) THEN now ELSE Val(execution.timestamp),
   success |-> execution.success,
   runtime_ms |-> execution.runtime_ms,
   input_tokens |-> execution.input_tokens,
   output_tokens |-> execution.output_tokens,
   total_tokens |-> execution.total_tokens,
   cost_usd |-> execution.cost_usd,
   error_message |-> execution.error_message]

\* A variant that appends to the ledger without creating the registry entry.
RecordExecutionNoRegister(meta, keys, recs, execution, now) ==
  LET agent_id == execution.agent_id
      recs1 == IF agent_id \in DOMAIN recs THEN recs ELSE DictSet(recs, agent_id, <<>>)
      recs2 == [recs1 EXCEPT ![agent_id] = Append(@, ExecutionData(execution, now))]
  IN  [meta |-> UpdateAgentAverages(meta, recs2, agent_id),
       keys |-> keys,
       recs |-> recs2]

\* A variant that puts the new record in front of the history.
RecordExecutionPrepend(meta, keys, recs, execution, now) ==
  LET agent_id == execution.agent_id
      meta1 == IF agent_id \in DOMAIN meta THEN meta
               ELSE DictSet(meta, agent_id, DefaultMetadata(agent_id))
      recs1 == IF agent_id \in DOMAIN recs THEN recs ELSE DictSet(recs, agent_id, <<>>)
      recs2 == [recs1 EXCEPT ![agent_id] = <<ExecutionData(execution, now)>> \o @]
  IN  [meta |-> UpdateAgentAverages(meta1, recs2, agent_id),
       keys |-> KeysSet(keys, agent_id),
       recs |-> recs2]

\* A variant that writes the default registry entry on every call.
RecordExecutionOverwrite(meta, keys, recs, execution, now) ==
  LET agent_id == execution.agent_id
      meta1 == DictSet(meta, agent_id, DefaultMetadata(agent_id))
      recs1 == IF agent_id \in DOMAIN recs THEN recs ELSE DictSet(recs, agent_id, <<>>)
      recs2 == [recs1 EXCEPT ![agent_id] = Append(@, ExecutionData(execution, now))]
  IN  [meta |-> UpdateAgentAverages(meta1, recs2, agent_id),
       keys |-> KeysSet(keys, agent_id),
       recs |-> recs2]

\* A variant that drops a record whose execution_id the history already has.
RecordExecutionDedup(meta, keys, recs, execution, now) ==
  LET agent_id == execution.agent_id
      data == ExecutionData(execution, now)
      meta1 == IF agent_id \in DOMAIN meta THEN meta
               ELSE DictSet(meta, agent_id, DefaultMetadata(agent_id))
      recs1 == IF agent_id \in DOMAIN recs THEN recs ELSE DictSet(recs, agent_id, <<>>)
      known == \E i \in 1..Len(recs1[agent_id]) :
                 recs1[agent_id][i].execution_id = data.execution_id
      recs2 == IF known THEN recs1 ELSE [recs1 EXCEPT ![agent_id] = Append(@, data)]
  IN  [meta |-> UpdateAgentAverages(meta1, recs2, agent_id),
       keys |-> KeysSet(keys, agent_id),
       recs |-> recs2]

\* record_execution(execution): the three parts of the store afterwards
RecordExecution(meta, keys, recs, execution, now) ==
  LET agent_id == execution.agent_id
      meta1 == IF agent_id \in DOMAIN meta THEN meta
               ELSE DictSet(meta, agent_id, DefaultMetadata(agent_id))
      keys1 == KeysSet(keys, agent_id)
      recs1 == IF agent_id \in DOMAIN recs THEN recs ELSE DictSet(recs, agent_id, <<>>)
      recs2 == [recs1 EXCEPT ![agent_id] = Append(@, ExecutionData(execution, now))]
  IN  [meta |-> UpdateAgentAverages(meta1, recs2, agent_id),
       keys |-> keys1,
       recs |-> recs2]

\* sum(1 for r in records if not r.get("success", False))
RECURSIVE CountFailures(_)
CountFailures(records) ==
  IF records = <<>> THEN 0
  ELSE (IF records[1].success THEN 0 ELSE 1) + CountFailures(Tail(records))

\* round(sum(xs) / len(xs) if xs else 0.0, 2) over the non-None values of a field
\* A variant that divides by the number of all records.
AverageTokensOverAllRecords(records, fld) ==
  LET xs == NonNull(records, fld)
  IN  Round(IF xs # <<>> THEN Rat(SumSeq(xs), Len(records)) ELSE RatOfInt(0),
            UsageDigits)

AverageTokens(records, fld) ==
  LET xs == NonNull(records, fld)
  IN  Round(IF xs # <<>> THEN MeanOf(xs) ELSE RatOfInt(0), UsageDigits)

AgentUsageResponse(runs, fails, avg_in, avg_out, p50, p95) ==
  [total_runs |-> runs, failures |-> fails,
   avg_input_tokens |-> avg_in, avg_output_tokens |-> avg_out,
   p50_latency_ms |-> p50, p95_latency_ms |-> p95]

NotFound == [status |-> 404, body |-> "not found in inventory"]
InternalError == [status |-> 500, body |-> "error"]
Ok(body) == [status |-> 200, body |-> body]

\* A variant without the check that the agent is registered.
GetAgentUsageUnchecked(meta, recs, agent_id) ==
  LET records == Records(recs, agent_id)
  IN  Ok(AgentUsageResponse(Len(records), CountFailures(records), 0, 0, 0, 0))

\* A variant that looks the agent up in the ledger instead of the registry.
GetAgentUsageByLedger(meta, recs, agent_id) ==
  IF agent_id \notin DOMAIN recs THEN NotFound
  ELSE Ok(AgentUsageResponse(Len(recs[agent_id]), CountFailures(recs[agent_id]),
                             0, 0, 0, 0))

\* get_agent_usage_internal(agent_id): the HTTP status and the body
GetAgentUsageInternal(meta, recs, agent_id) ==
  IF agent_id \notin DOMAIN meta THEN NotFound
  ELSE
    LET records == Records(recs, agent_id)
    IN  IF records = <<>> THEN Ok(AgentUsageResponse(0, 0, 0, 0, 0, 0))
        ELSE
          LET latencies == NonNull(records, "runtime_ms")
              p50 == IF latencies # <<>> THEN CalculatePercentile(latencies, 50)
                     ELSE [ok |-> TRUE, v |-> RatOfInt(0)]
              p95 == IF latencies # <<>> THEN CalculatePercentile(latencies, 95)
                     ELSE [ok |-> TRUE, v |-> RatOfInt(0)]
          IN  IF ~(p50.ok /\ p95.ok) THEN InternalError
              ELSE Ok(AgentUsageResponse(
                        Len(records),
                        CountFailures(records),
                        AverageTokens(records, "input_tokens"),
                        AverageTokens(records, "output_tokens"),
                        Round(p50.v, UsageDigits),
                        Round(p95.v, UsageDigits)))

\* The loop of list_local_agents over agent_metadata.items(), in key order:
\* the metadata afterwards.
RECURSIVE UpdateAll(_, _, _)
UpdateAll(meta, recs, keys) ==
  IF keys = <<>> THEN meta
  ELSE UpdateAll(UpdateAgentAverages(meta, recs, keys[1]), recs, Tail(keys))

\* agents_list before the sort: one agent_info per key, in key order
AgentInfos(meta, keys) ==
  [i \in 1..Len(keys) |->
     [id |-> meta[keys[i]].id, description |-> meta[keys[i]].description,
      avg_cost |-> meta[keys[i]].avg_cost, avg_latency |-> meta[keys[i]].avg_latency]]

\* A variant that keeps the order of arrival: no sort.
AppendById(x, s) == Append(s, x)

\* agents_list.sort(key=lambda x: x["id"]): a stable insertion by id
RECURSIVE InsertById(_, _)
InsertById(x, s) ==
  IF s = <<>> THEN <<x>>
  ELSE IF Rank(x.id) < Rank(s[1].id) THEN <<x>> \o s
  ELSE <<s[1]>> \o InsertById(x, Tail(s))

RECURSIVE SortById(_)
SortById(list) ==
  IF list = <<>> THEN <<>>
  ELSE InsertById(list[Len(list)], SortById(SubSeq(list, 1, Len(list) - 1)))

\* ---------------------------------------------------- the requests applied

GhostInit ==
  [touched |-> FALSE, deleted |-> FALSE, only_recorded |-> TRUE,
   cost_sum |-> 0, cost_count |-> 0, runs |-> 0, failures |-> 0]

GhostRecorded(g, payload) ==
  [g EXCEPT !.touched = TRUE, !.deleted = FALSE,
            !.cost_sum = IF g.only_recorded /\ ~IsNone(payload.cost_usd)
                         THEN @ + Val(payload.cost_usd) ELSE @,
            !.cost_count = IF g.only_recorded /\ ~IsNone(payload.cost_usd)
                           THEN @ + 1 ELSE @,
            !.runs = @ + 1,
            !.failures = IF payload.success = Some(FALSE) THEN @ + 1 ELSE @]

GhostRegistered(g) ==
  [g EXCEPT !.touched = TRUE, !.deleted = FALSE, !.only_recorded = FALSE,
            !.cost_sum = 0, !.cost_count = 0]

GhostDeleted(g) ==
  [GhostInit EXCEPT !.deleted = TRUE, !.only_recorded = FALSE]

\* mcp while no request has come through the JSON-RPC endpoint
NoMcp == [transport |-> "none"]

\* The tasks of the event loop: each is idle or runs one handler, at pc.
Tasks == {1, 2}
TaskIdle == [pc |-> "idle", request |-> None, local |-> None, overlap |-> FALSE]
\* running = 0: no coroutine holds the loop; overlapped: the request that
\* returned last was in flight together with another one
LoopIdle == [running |-> 0, tasks |-> [t \in Tasks |-> TaskIdle], overlapped |-> FALSE]

RECURSIVE TotalLen(_, _)
TotalLen(recs, keys) ==
  IF keys = {} THEN 0
  ELSE LET k == CHOOSE x \in keys : TRUE
       IN  Len(recs[k]) + TotalLen(recs, keys \ {k})

TotalRecords == TotalLen(execution_records, DOMAIN execution_records)

EmptyDict == [k \in {} |-> None]

Init ==
  /\ agent_metadata = EmptyDict
  /\ metadata_keys = <<>>
  /\ execution_records = EmptyDict
  /\ response = [op |-> "start", request |-> None, status |-> 0, body |-> None]
  /\ ghost = [a \in Agents |-> GhostInit]
  /\ mcp = NoMcp
  /\ event_loop = LoopIdle

\* POST /record_execution
RecordAgentExecution(payload, now) ==
  LET execution == AgentExecution(payload)
      after == RecordExecution(agent_metadata, metadata_keys, execution_records,
                               execution, now)
  IN  /\ TotalRecords < MaxRecords
      /\ agent_metadata' = after.meta
      /\ metadata_keys' = after.keys
      /\ execution_records' = after.recs
      /\ response' = [op |-> "record_execution", request |-> payload, status |-> 200,
                      body |-> [status |-> "success",
                                execution_id |-> execution.execution_id]]
      /\ ghost' = [ghost EXCEPT ![payload.agent_id] = GhostRecorded(@, payload)]

\* A variant that starts the history of the agent afresh.
RegisterAgentResetLedger(metadata) ==
  /\ agent_metadata' = DictSet(agent_metadata, metadata.id,
                               [id |-> metadata.id, description |-> metadata.description,
                                avg_cost |-> CostUnits(metadata.avg_cost),
                                avg_latency |-> LatencyUnits(metadata.avg_latency)])
  /\ metadata_keys' = KeysSet(metadata_keys, metadata.id)
  /\ execution_records' = DictSet(execution_records, metadata.id, <<>>)
  /\ response' = [op |-> "register_agent", request |-> metadata, status |-> 200,
                  body |-> [status |-> "success"]]
  /\ ghost' = [ghost EXCEPT ![metadata.id] = GhostRegistered(@)]

\* A variant that does not recompute the averages from the history.
RegisterAgentNoRecompute(metadata) ==
  /\ agent_metadata' = DictSet(agent_metadata, metadata.id,
                               [id |-> metadata.id, description |-> metadata.description,
                                avg_cost |-> CostUnits(metadata.avg_cost),
                                avg_latency |-> LatencyUnits(metadata.avg_latency)])
  /\ metadata_keys' = KeysSet(metadata_keys, metadata.id)
  /\ UNCHANGED execution_records
  /\ response' = [op |-> "register_agent", request |-> metadata, status |-> 200,
                  body |-> [status |-> "success"]]
  /\ ghost' = [ghost EXCEPT ![metadata.id] = GhostRegistered(@)]

\* POST /register_agent
RegisterAgent(metadata) ==
  LET meta1 == DictSet(agent_metadata, metadata.id,
                       [id |-> metadata.id, description |-> metadata.description,
                        avg_cost |-> CostUnits(metadata.avg_cost),
                        avg_latency |-> LatencyUnits(metadata.avg_latency)])
  IN  /\ agent_metadata' = UpdateAgentAverages(meta1, execution_records, metadata.id)
      /\ metadata_keys' = KeysSet(metadata_keys, metadata.id)
      /\ UNCHANGED execution_records
      /\ response' = [op |-> "register_agent", request |-> metadata, status |-> 200,
                      body |-> [status |-> "success"]]
      /\ ghost' = [ghost EXCEPT ![metadata.id] = GhostRegistered(@)]

\* GET /local/agents (and GET /list_agents)
ListLocalAgents ==
  LET meta1 == UpdateAll(agent_metadata, execution_records, metadata_keys)
  IN  /\ agent_metadata' = meta1
      /\ UNCHANGED <<metadata_keys, execution_records, ghost>>
      /\ response' = [op |-> "list_agents", request |-> None, status |-> 200,
                      body |-> [agents |-> SortById(AgentInfos(meta1, metadata_keys))]]

\* GET /local/agents/{agent_id}/usage (and GET /usage)
GetLocalAgentUsage(agent_id) ==
  LET r == GetAgentUsageInternal(agent_metadata, execution_records, agent_id)
  IN  /\ response' = [op |-> "get_agent_usage", request |-> agent_id,
                      status |-> r.status, body |-> r.body]
      /\ UNCHANGED <<agent_metadata, metadata_keys, execution_records, ghost>>

\* A variant that removes the history and leaves the registry entry.
DeleteFromStoreLedgerOnly(meta, keys, recs, agent_id) ==
  [meta |-> meta, keys |-> keys,
   recs |-> IF agent_id \in DOMAIN recs THEN DictDel(recs, agent_id) ELSE recs]

\* A variant that removes the registry entry and leaves the history.
DeleteFromStoreRegistryOnly(meta, keys, recs, agent_id) ==
  [meta |-> DictDel(meta, agent_id), keys |-> KeysDel(keys, agent_id), recs |-> recs]

\* del agent_metadata[agent_id]; del execution_records[agent_id] if present
DeleteFromStore(meta, keys, recs, agent_id) ==
  [meta |-> DictDel(meta, agent_id), keys |-> KeysDel(keys, agent_id),
   recs |-> IF agent_id \in DOMAIN recs THEN DictDel(recs, agent_id) ELSE recs]

\* DELETE /agent/{agent_id}
DeleteAgent(agent_id) ==
  IF agent_id \notin DOMAIN agent_metadata
  THEN /\ response' = [op |-> "delete_agent", request |-> agent_id,
                       status |-> NotFound.status, body |-> NotFound.body]
       /\ UNCHANGED <<agent_metadata, metadata_keys, execution_records, ghost>>
  ELSE LET after == DeleteFromStore(agent_metadata, metadata_keys,
                                    execution_records, agent_id)
       IN  /\ agent_metadata' = after.meta
           /\ metadata_keys' = after.keys
           /\ execution_records' = after.recs
           /\ response' = [op |-> "delete_agent", request |-> agent_id,
                           status |-> 200, body |-> [status |-> "success"]]
           /\ ghost' = [ghost EXCEPT ![agent_id] = GhostDeleted(@)]

\* A request over a plain HTTP endpoint leaves the JSON-RPC reply alone, and
\* the event loop is idle before and after it.
Plain == UNCHANGED <<mcp, event_loop>>

\* One step: any request about the agents Ids over its plain HTTP endpoint,
\* with a body from Payloads or Metadata where it has one.  No handler has an
\* await in it, so each runs from start to end as one step.
Requests(Ids, Payloads, Metadata) ==
  \/ \E payload \in Payloads : \E now \in Clock :
       RecordAgentExecution(payload, now) /\ Plain
  \/ \E metadata \in Metadata : RegisterAgent(metadata) /\ Plain
  \/ ListLocalAgents /\ Plain
  \/ \E a \in Ids : GetLocalAgentUsage(a) /\ Plain
  \/ \E a \in Ids : DeleteAgent(a) /\ Plain

\* Every request, for two agents.
Next ==
  Requests(Agents, UNION {StorePayloads(a) : a \in Agents},
           UNION {StoreMetadata(a) : a \in Agents})
Spec == Init /\ [][Next]_vars

\* One agent, the cost and latency fields and the supplied averages varied.
NextAverages == Requests({"a1"}, AveragePayloads("a1"), AverageMetadata("a1"))
SpecAverages == Init /\ [][NextAverages]_vars

\* One agent, the fields the usage statistics read varied.
NextUsage == Requests({"a1"}, UsagePayloads("a1"), UsageMetadata("a1"))
SpecUsage == Init /\ [][NextUsage]_vars

\* One agent, bodies for the ledger.
NextLedger == Requests({"a1"}, LedgerPayloads("a1"), UsageMetadata("a1"))
SpecLedger == Init /\ [][NextLedger]_vars

\* ------------------------------------------- the JSON-RPC endpoint, POST /
\* The codes of the JSON-RPC error objects the endpoint builds.
MethodNotFound == -32601
InternalErrorCode == -32603

\* What the client of the endpoint gets: a JSON-RPC response with a result, a
\* JSON-RPC response with an error object, or a bare HTTP error response.
JsonRpcResult(body) ==
  [kind |-> "jsonrpc_result", http_status |-> 200, code |-> 0, result |-> body]
JsonRpcError(code) ==
  [kind |-> "jsonrpc_error", http_status |-> 200, code |-> code, result |-> None]
HttpError(status) ==
  [kind |-> "http_error", http_status |-> status, code |-> 0, result |-> None]

\* The tool arguments: the identifier may be left out.
McpAgentArgs == [agent_id : Opt({"a1"})]
McpMetadataArgs ==
  [id : Opt({"a1"}), description : {"d1"}, avg_cost : {None}, avg_latency : {None}]
McpExecutionArgs ==
  {[ExecutionDefaults("a1") EXCEPT !.agent_id = o, !.cost_usd = c] :
     o \in Opt({"a1"}), c \in Opt({1})}

\* tool_args with the identifier taken out of its Optional
WithId(args, key) == [args EXCEPT ![key] = Val(@)]

\* A handler that returned gives a result; an HTTPException it raised passes
\* through `except HTTPException: raise` and leaves as an HTTP error.
McpReply(r) == IF r.status = 200 THEN JsonRpcResult(r.body) ELSE HttpError(r.status)

\* the endpoint stopped before any handler was called
McpStopped(transport, name, args, status, body, reply) ==
  /\ response' = [op |-> "mcp_endpoint", request |-> [name |-> name, arguments |-> args],
                  status |-> status, body |-> body]
  /\ mcp' = [transport |-> transport, request |-> [name |-> name, arguments |-> args],
             reply |-> reply]
  /\ UNCHANGED <<agent_metadata, metadata_keys, execution_records, ghost, event_loop>>

\* the endpoint called a handler, which set response
McpHandled(name, args) ==
  /\ mcp' = [transport |-> "post", request |-> [name |-> name, arguments |-> args],
             reply |-> McpReply(response')]
  /\ UNCHANGED event_loop

\* tools/call of list_local_agents
McpListLocalAgents ==
  ListLocalAgents /\ McpHandled("list_local_agents", None)

\* tools/call of get_local_agent_usage: `if not agent_id` raises a 400
McpGetLocalAgentUsage(args) ==
  IF IsNone(args.agent_id)
  THEN McpStopped("post", "get_local_agent_usage", args, 400,
                  "agent_id parameter is required", HttpError(400))
  ELSE GetLocalAgentUsage(Val(args.agent_id)) /\ McpHandled("get_local_agent_usage", args)

\* tools/call of register_agent: AgentMetadata(**tool_args) raises a pydantic
\* ValidationError without id, which `except Exception` turns into -32603
McpRegisterAgent(args) ==
  IF IsNone(args.id)
  THEN McpStopped("post", "register_agent", args, 0, "ValidationError",
                  JsonRpcError(InternalErrorCode))
  ELSE RegisterAgent(WithId(args, "id")) /\ McpHandled("register_agent", args)

\* tools/call of record_execution: AgentExecution(**tool_args) likewise
McpRecordExecution(args, now) ==
  IF IsNone(args.agent_id)
  THEN McpStopped("post", "record_execution", args, 0, "ValidationError",
                  JsonRpcError(InternalErrorCode))
  ELSE RecordAgentExecution(WithId(args, "agent_id"), now)
       /\ McpHandled("record_execution", args)

\* tools/call of delete_agent
McpDeleteAgent(args) ==
  IF IsNone(args.agent_id)
  THEN McpStopped("post", "delete_agent", args, 400,
                  "agent_id parameter is required", HttpError(400))
  ELSE DeleteAgent(Val(args.agent_id)) /\ McpHandled("delete_agent", args)

\* tools/call of a name the endpoint does not know
McpUnknownTool ==
  McpStopped("post", "unknown_tool", None, 0, "Method not found",
             JsonRpcError(MethodNotFound))

\* POST /sse, tools/call: nothing is called, whatever the tool
McpSseToolsCall(name, args) ==
  McpStopped("sse", name, args, 0, "Tool calls via SSE not yet fully implemented",
             JsonRpcError(InternalErrorCode))

\* Every tools/call, over both transports, for one agent.
NextMcp ==
  \/ McpListLocalAgents
  \/ \E args \in McpAgentArgs : McpGetLocalAgentUsage(args)
  \/ \E args \in McpMetadataArgs : McpRegisterAgent(args)
  \/ \E args \in McpExecutionArgs : \E now \in Clock : McpRecordExecution(args, now)
  \/ \E args \in McpAgentArgs : McpDeleteAgent(args)
  \/ McpUnknownTool
  \/ McpSseToolsCall("list_local_agents", None)
  \/ \E args \in McpAgentArgs : McpSseToolsCall("get_local_agent_usage", args)
  \/ \E args \in McpMetadataArgs : McpSseToolsCall("register_agent", args)
  \/ \E args \in McpExecutionArgs : McpSseToolsCall("record_execution", args)
  \/ \E args \in McpAgentArgs : McpSseToolsCall("delete_agent", args)
SpecMcp == Init /\ [][NextMcp]_vars

\* ------------------------------------- the handlers as coroutines in flight
\* Requests are accepted while others are in flight; each handler coroutine
\* runs statement by statement and the loop passes to another coroutine only
\* where the running one suspends at an await.

\* Variants with an await between the two removals of delete_agent, and
\* between the append and the recomputation of record_execution.
AwaitsAfterDelMeta(pc) == pc = "del_meta"
AwaitsAfterAppend(pc) == pc = "rec_append"

\* Whether the handler suspends after the statement at pc: record_execution,
\* update_agent_averages, delete_agent and get_agent_usage_internal hold no
\* await that yields to the loop.
Awaits(pc) == FALSE

\* The requests in flight: two bodies of record_execution, and the agent id
\* of delete_agent and of get_agent_usage.
ConcurrentRecords ==
  {[op |-> "record_execution", body |-> [ExecutionDefaults("a1") EXCEPT !.cost_usd = c]] :
     c \in {Some(1), Some(2)}}
ConcurrentOthers == [op : {"delete_agent", "get_agent_usage"}, body : {"a1"}]

FirstPc(op) ==
  CASE op = "record_execution" -> "rec_meta"
    [] op = "delete_agent" -> "del_check"
    [] op = "get_agent_usage" -> "use_read"

InFlight == {t \in Tasks : event_loop.tasks[t].pc # "idle"}
InFlightRecords ==
  Cardinality({t \in InFlight : event_loop.tasks[t].request.op = "record_execution"})

\* A request arrives: its handler coroutine is created, not yet run.
Accept(t, request) ==
  /\ event_loop.running = 0
  /\ event_loop.tasks[t].pc = "idle"
  /\ request.op = "record_execution" => TotalRecords + InFlightRecords < MaxRecords
  /\ event_loop' =
       [event_loop EXCEPT !.tasks =
          [u \in Tasks |->
             IF u = t
             THEN [pc |-> FirstPc(request.op), request |-> request, local |-> None,
                   overlap |-> InFlight # {}]
             ELSE IF u \in InFlight THEN [@[u] EXCEPT !.overlap = TRUE] ELSE @[u]]]
  /\ UNCHANGED <<agent_metadata, metadata_keys, execution_records, response, ghost, mcp>>

\* task t may execute its statement at pc
Runs(t, pc) == event_loop.running \in {0, t} /\ event_loop.tasks[t].pc = pc

\* task t has executed the statement at pc and goes on at next
Goto(t, pc, next, local) ==
  event_loop' = [event_loop EXCEPT !.running = IF Awaits(pc) THEN 0 ELSE t,
                                   !.tasks[t].pc = next,
                                   !.tasks[t].local = local]

\* the handler of task t returns (or raises): the loop is free again
Return(t, op, status, body) ==
  /\ response' = [op |-> op, request |-> event_loop.tasks[t].request.body,
                  status |-> status, body |-> body]
  /\ event_loop' = [event_loop EXCEPT !.running = 0, !.tasks[t] = TaskIdle,
                                      !.overlapped = event_loop.tasks[t].overlap]

\* record_execution: if agent_id not in agent_metadata: ...
RecMeta(t) ==
  LET agent_id == event_loop.tasks[t].request.body.agent_id
  IN  /\ Runs(t, "rec_meta")
      /\ agent_metadata' = IF agent_id \in DOMAIN agent_metadata THEN agent_metadata
                           ELSE DictSet(agent_metadata, agent_id, DefaultMetadata(agent_id))
      /\ metadata_keys' = KeysSet(metadata_keys, agent_id)
      /\ Goto(t, "rec_meta", "rec_list", None)
      /\ UNCHANGED <<execution_records, response, ghost, mcp>>

\* record_execution: if agent_id not in execution_records: ...
RecList(t) ==
  LET agent_id == event_loop.tasks[t].request.body.agent_id
  IN  /\ Runs(t, "rec_list")
      /\ execution_records' = IF agent_id \in DOMAIN execution_records
                              THEN execution_records
                              ELSE DictSet(execution_records, agent_id, <<>>)
      /\ Goto(t, "rec_list", "rec_append", None)
      /\ UNCHANGED <<agent_metadata, metadata_keys, response, ghost, mcp>>

\* record_execution: execution_records[agent_id].append(execution_data); a
\* list removed meanwhile makes the subscript raise KeyError
RecAppend(t, now) ==
  LET execution == AgentExecution(event_loop.tasks[t].request.body)
      agent_id == execution.agent_id
  IN  /\ Runs(t, "rec_append")
      /\ IF agent_id \in DOMAIN execution_records
         THEN /\ execution_records' =
                   [execution_records EXCEPT
                      ![agent_id] = Append(@, ExecutionData(execution, now))]
              /\ Goto(t, "rec_append", "rec_read", None)
              /\ UNCHANGED response
         ELSE /\ Return(t, "record_execution", InternalError.status, InternalError.body)
              /\ UNCHANGED execution_records
      /\ UNCHANGED <<agent_metadata, metadata_keys, ghost, mcp>>

\* update_agent_averages: records = ...; avg_cost = ...; avg_latency = ...
RecRead(t) ==
  LET agent_id == event_loop.tasks[t].request.body.agent_id
      records == Records(execution_records, agent_id)
  IN  /\ Runs(t, "rec_read")
      /\ IF records = <<>>
         THEN Goto(t, "rec_read", "rec_return", None)
         ELSE Goto(t, "rec_read", "rec_write",
                   [avg_cost |-> AverageOf(records, "cost_usd"),
                    avg_latency |-> AverageOf(records, "runtime_ms")])
      /\ UNCHANGED <<agent_metadata, metadata_keys, execution_records, response, ghost,
                     mcp>>

\* update_agent_averages: if agent_id in agent_metadata: store the averages
RecWrite(t) ==
  LET agent_id == event_loop.tasks[t].request.body.agent_id
      local == event_loop.tasks[t].local
  IN  /\ Runs(t, "rec_write")
      /\ agent_metadata' =
           IF agent_id \in DOMAIN agent_metadata
           THEN [agent_metadata EXCEPT ![agent_id] =
                   [@ EXCEPT !.avg_cost = WriteAverage(@, local.avg_cost, CostDigits),
                             !.avg_latency = WriteAverage(@, local.avg_latency,
                                                          LatencyDigits)]]
           ELSE agent_metadata
      /\ Goto(t, "rec_write", "rec_return", None)
      /\ UNCHANGED <<metadata_keys, execution_records, response, ghost, mcp>>

\* record_agent_execution: return {"status": "success", ...}
RecReturn(t) ==
  LET payload == event_loop.tasks[t].request.body
  IN  /\ Runs(t, "rec_return")
      /\ Return(t, "record_execution", 200,
                [status |-> "success", execution_id |-> payload.execution_id])
      /\ ghost' = [ghost EXCEPT ![payload.agent_id] = GhostRecorded(@, payload)]
      /\ UNCHANGED <<agent_metadata, metadata_keys, execution_records, mcp>>

\* delete_agent: if agent_id not in agent_metadata: raise HTTPException(404)
DelCheck(t) ==
  LET agent_id == event_loop.tasks[t].request.body
  IN  /\ Runs(t, "del_check")
      /\ IF agent_id \in DOMAIN agent_metadata
         THEN Goto(t, "del_check", "del_meta", None) /\ UNCHANGED response
         ELSE Return(t, "delete_agent", NotFound.status, NotFound.body)
      /\ UNCHANGED <<agent_metadata, metadata_keys, execution_records, ghost, mcp>>

\* delete_agent: del agent_metadata[agent_id]; KeyError if it is gone
DelMeta(t) ==
  LET agent_id == event_loop.tasks[t].request.body
  IN  /\ Runs(t, "del_meta")
      /\ IF agent_id \in DOMAIN agent_metadata
         THEN /\ agent_metadata' = DictDel(agent_metadata, agent_id)
              /\ metadata_keys' = KeysDel(metadata_keys, agent_id)
              /\ Goto(t, "del_meta", "del_recs", None)
              /\ UNCHANGED response
         ELSE /\ Return(t, "delete_agent", InternalError.status, InternalError.body)
              /\ UNCHANGED <<agent_metadata, metadata_keys>>
      /\ UNCHANGED <<execution_records, ghost, mcp>>

\* delete_agent: if agent_id in execution_records: del execution_records[agent_id]
DelRecs(t) ==
  LET agent_id == event_loop.tasks[t].request.body
  IN  /\ Runs(t, "del_recs")
      /\ execution_records' = IF agent_id \in DOMAIN execution_records
                              THEN DictDel(execution_records, agent_id)
                              ELSE execution_records
      /\ Goto(t, "del_recs", "del_return", None)
      /\ UNCHANGED <<agent_metadata, metadata_keys, response, ghost, mcp>>

\* delete_agent: return {"status": "success", ...}
DelReturn(t) ==
  LET agent_id == event_loop.tasks[t].request.body
  IN  /\ Runs(t, "del_return")
      /\ Return(t, "delete_agent", 200, [status |-> "success"])
      /\ ghost' = [ghost EXCEPT ![agent_id] = GhostDeleted(@)]
      /\ UNCHANGED <<agent_metadata, metadata_keys, execution_records, mcp>>

\* get_agent_usage_internal, whole: it reads and returns
UseRead(t) ==
  LET agent_id == event_loop.tasks[t].request.body
      r == GetAgentUsageInternal(agent_metadata, execution_records, agent_id)
  IN  /\ Runs(t, "use_read")
      /\ Return(t, "get_agent_usage", r.status, r.body)
      /\ UNCHANGED <<agent_metadata, metadata_keys, execution_records, ghost, mcp>>

NextConcurrent ==
  \/ \E t \in Tasks : \E request \in ConcurrentRecords : Accept(t, request)
  \/ \E t \in Tasks : \E request \in ConcurrentOthers : Accept(t, request)
  \/ \E t \in Tasks : RecMeta(t)
  \/ \E t \in Tasks : RecList(t)
  \/ \E t \in Tasks : \E now \in Clock : RecAppend(t, now)
  \/ \E t \in Tasks : RecRead(t)
  \/ \E t \in Tasks : RecWrite(t)
  \/ \E t \in Tasks : RecReturn(t)
  \/ \E t \in Tasks : DelCheck(t)
  \/ \E t \in Tasks : DelMeta(t)
  \/ \E t \in Tasks : DelRecs(t)
  \/ \E t \in Tasks : DelReturn(t)
  \/ \E t \in Tasks : UseRead(t)
SpecConcurrent == Init /\ [][NextConcurrent]_vars

\* calculate_percentile on its own: Init draws the sample and the percentile,
\* the one action applies the function.
SeqsUpTo(S, n) == UNION {[1..k -> S] : k \in 0..n}
PercentileValues == {10, 20, 30, 40}

InitPercentile ==
  /\ agent_metadata = EmptyDict
  /\ metadata_keys = <<>>
  /\ execution_records = EmptyDict
  /\ ghost = [a \in Agents |-> GhostInit]
  /\ mcp = NoMcp
  /\ event_loop = LoopIdle
  /\ response \in {[op |-> "input", status |-> 0, body |-> None,
                     request |-> [data |-> d, percentile |-> q]] :
                      d \in SeqsUpTo(PercentileValues, MaxData), q \in Percentiles}

ApplyCalculatePercentile ==
  LET r == CalculatePercentile(response.request.data, response.request.percentile)
  IN  /\ response.op = "input"
      /\ response' = [response EXCEPT !.op = "calculate_percentile",
                                      !.status = IF r.ok THEN 200 ELSE 500,
                                      !.body = r.v]
      /\ UNCHANGED <<agent_metadata, metadata_keys, execution_records, ghost, mcp,
                     event_loop>>

SpecPercentile == InitPercentile /\ [][ApplyCalculatePercentile]_vars

\* ------------------------------------------------- reference definitions

Abs(x) == IF x < 0 THEN 0 - x ELSE x

\* v is num/den rounded to `digits` decimals (v held as an integer of 10^-digits)
IsRounded(v, num, den, digits) == 2 * Abs(v * den - num * Pow10(digits)) <= den

\* the positions of the records that carry a value in the field
Carrying(records, fld) == {i \in 1..Len(records) : records[i][fld] # None}

RECURSIVE TotalOver(_, _, _)
TotalOver(records, fld, idx) ==
  IF idx = {} THEN 0
  ELSE LET i == CHOOSE x \in idx : TRUE
       IN  Val(records[i][fld]) + TotalOver(records, fld, idx \ {i})

\* the stored value o is the mean of the field over the history, rounded
IsMeanOf(o, records, fld, digits) ==
  /\ o # None
  /\ IsRounded(Val(o), TotalOver(records, fld, Carrying(records, fld)),
               Cardinality(Carrying(records, fld)), digits)

History(a) == IF a \in DOMAIN execution_records THEN execution_records[a] ELSE <<>>
Registered == DOMAIN agent_metadata

\* the k-th smallest (k = 0 first) of the values at the positions idx
KthSmallest(records, fld, idx, k) ==
  CHOOSE v \in {Val(records[i][fld]) : i \in idx} :
    /\ Cardinality({i \in idx : Val(records[i][fld]) < v}) <= k
    /\ k < Cardinality({i \in idx : Val(records[i][fld]) <= v})

\* 100 times the linear-interpolated p-th percentile of the field's values
Percentile100(records, fld, p) ==
  LET idx == Carrying(records, fld)
      rank100 == p * (Cardinality(idx) - 1)
      lo == rank100 \div 100
      fr == rank100 % 100
  IN  IF idx = {} THEN 0
      ELSE IF fr = 0 THEN 100 * KthSmallest(records, fld, idx, lo)
      ELSE 100 * KthSmallest(records, fld, idx, lo)
           + fr * (KthSmallest(records, fld, idx, lo + 1)
                   - KthSmallest(records, fld, idx, lo))

\* -------------------------------------------------------------- the claims

\* C1: while record_execution is the only request applied to an agent id, the
\* avg_cost stored after each call is the mean of the non-null cost_usd values
\* submitted so far, rounded to 6 decimals (and there is none before the
\* first such value).
C1_AvgCostIsRunningMean ==
  \A a \in Agents :
    (ghost[a].only_recorded /\ ghost[a].runs > 0) =>
      /\ a \in Registered
      /\ IF ghost[a].cost_count = 0
         THEN agent_metadata[a].avg_cost = None
         ELSE /\ agent_metadata[a].avg_cost # None
              /\ IsRounded(Val(agent_metadata[a].avg_cost), ghost[a].cost_sum,
                           ghost[a].cost_count, CostDigits)

\* Three costs 1, 2, 2 and nothing else: the mean 1.666667 is stored.
C1_Witness ==
  /\ ghost["a1"].only_recorded
  /\ ghost["a1"].cost_count = 3
  /\ ghost["a1"].cost_sum = 5
  /\ agent_metadata["a1"].avg_cost = Some(1666667)

\* C2 as stated: every stored average is the rounded mean of the non-null
\* values of its field over the history (none stored when there is no value).
C2_Original ==
  \A a \in Registered :
    /\ IF Carrying(History(a), "cost_usd") = {}
       THEN agent_metadata[a].avg_cost = None
       ELSE IsMeanOf(agent_metadata[a].avg_cost, History(a), "cost_usd", CostDigits)
    /\ IF Carrying(History(a), "runtime_ms") = {}
       THEN agent_metadata[a].avg_latency = None
       ELSE IsMeanOf(agent_metadata[a].avg_latency, History(a), "runtime_ms",
                     LatencyDigits)

\* C2 (amended): for every registered agent, a stored average whose field has
\* at least one non-null value in the history is the mean of those values,
\* rounded to 6 (cost) and 2 (latency) decimals; with no such value it is
\* null or the value a register_agent call supplied.
C2_AveragesAreMeans ==
  \A a \in Registered :
    /\ IF Carrying(History(a), "cost_usd") = {}
       THEN agent_metadata[a].avg_cost \in {CostUnits(o) : o \in Opt(SuppliedCosts)}
       ELSE IsMeanOf(agent_metadata[a].avg_cost, History(a), "cost_usd", CostDigits)
    /\ IF Carrying(History(a), "runtime_ms") = {}
       THEN agent_metadata[a].avg_latency
              \in {LatencyUnits(o) : o \in Opt(SuppliedLatencies)}
       ELSE IsMeanOf(agent_metadata[a].avg_latency, History(a), "runtime_ms",
                     LatencyDigits)

\* A register_agent that supplied avg_cost = 5 over a history whose costs
\* average 1.666667: the mean is what is stored.
C2_Witness ==
  /\ response.op = "register_agent"
  /\ response.request.avg_cost = Some(5)
  /\ "a1" \in Registered
  /\ agent_metadata["a1"].avg_cost = Some(1666667)

\* C3: a record_execution whose cost_usd (runtime_ms) is null leaves the
\* stored avg_cost (avg_latency) as it was, null for an agent it creates; and
\* the recompute of list_agents leaves a field without samples as it was.
C3_NullSampleKeepsAverage ==
  [][
      /\ response'.op = "record_execution" =>
          LET a == response'.request.agent_id
              before == IF a \in Registered THEN agent_metadata[a]
                        ELSE [avg_cost |-> None, avg_latency |-> None]
          IN  /\ IsNone(response'.request.cost_usd) =>
                   agent_metadata'[a].avg_cost = before.avg_cost
              /\ IsNone(response'.request.runtime_ms) =>
                   agent_metadata'[a].avg_latency = before.avg_latency
      /\ response'.op = "list_agents" =>
          \A b \in Registered :
            /\ Carrying(History(b), "cost_usd") = {} =>
                 agent_metadata'[b].avg_cost = agent_metadata[b].avg_cost
            /\ Carrying(History(b), "runtime_ms") = {} =>
                 agent_metadata'[b].avg_latency = agent_metadata[b].avg_latency
    ]_vars

\* A supplied avg_cost of 5 still stored after an execution without cost_usd.
C3_Witness ==
  /\ response.op = "record_execution"
  /\ IsNone(response.request.cost_usd)
  /\ "a1" \in Registered
  /\ agent_metadata["a1"].avg_cost = CostUnits(Some(5))
  /\ Len(History("a1")) >= 1

\* C4 as stated: re-registering overwrites the description and leaves every
\* average the caller omitted as it was.
C4_Original ==
  [][(response'.op = "register_agent" /\ response'.request.id \in Registered) =>
       LET a == response'.request.id
       IN  /\ agent_metadata'[a].description = response'.request.description
           /\ IsNone(response'.request.avg_cost) =>
                agent_metadata'[a].avg_cost = agent_metadata[a].avg_cost
           /\ IsNone(response'.request.avg_latency) =>
                agent_metadata'[a].avg_latency = agent_metadata[a].avg_latency
    ]_vars

\* C4 (amended): re-registering overwrites the description; an average whose
\* field has a non-null value in the history keeps the value it had (the
\* recomputed mean), supplied or not; an average without one becomes the
\* supplied value, and null when the caller omitted it.
C4_ReRegister ==
  [][(response'.op = "register_agent" /\ response'.request.id \in Registered) =>
       LET a == response'.request.id
       IN  /\ agent_metadata'[a].description = response'.request.description
           /\ agent_metadata'[a].avg_cost =
                IF Carrying(History(a), "cost_usd") # {}
                THEN agent_metadata[a].avg_cost
                ELSE CostUnits(response'.request.avg_cost)
           /\ agent_metadata'[a].avg_latency =
                IF Carrying(History(a), "runtime_ms") # {}
                THEN agent_metadata[a].avg_latency
                ELSE LatencyUnits(response'.request.avg_latency)
    ]_vars

\* A re-registration that omitted avg_cost over a history with costs: the
\* description is the new one and the mean is still stored.
C4_Witness ==
  /\ response.op = "register_agent"
  /\ IsNone(response.request.avg_cost)
  /\ "a1" \in Registered
  /\ agent_metadata["a1"].description = "d2"
  /\ agent_metadata["a1"].avg_cost = Some(1500000)
  /\ Len(History("a1")) = 2

\* C5: from a successful delete_agent(id) until id is next registered or
\* recorded, list_agents does not list id and get_agent_usage(id) is a 404.
C5_DeletedStaysGone ==
  /\ response.op = "list_agents" =>
       \A a \in Agents : ghost[a].deleted =>
         \A i \in 1..Len(response.body.agents) : response.body.agents[i].id # a
  /\ response.op = "get_agent_usage" =>
       (ghost[response.request].deleted => response.status = 404)

\* get_agent_usage of a deleted agent, answered 404, another agent present.
C5_Witness ==
  /\ response.op = "get_agent_usage"
  /\ ghost[response.request].deleted
  /\ response.status = 404
  /\ Registered # {}

\* C6: get_agent_usage and delete_agent of an id absent from the registry
\* answer 404 and leave the registry and the ledger as they were.
C6_NotFoundChangesNothing ==
  [][(/\ response'.op \in {"get_agent_usage", "delete_agent"}
      /\ response'.request \notin Registered) =>
       /\ response'.status = 404
       /\ agent_metadata' = agent_metadata
       /\ metadata_keys' = metadata_keys
       /\ execution_records' = execution_records
    ]_vars

\* delete_agent of an unknown id answered 404 while the other agent has
\* history.
C6_Witness ==
  /\ response.op = "delete_agent"
  /\ response.status = 404
  /\ response.request \notin Registered
  /\ \E a \in Registered : Len(History(a)) >= 1

\* C7: get_agent_usage of a registered agent without execution records
\* succeeds with total_runs = 0, failures = 0 and every statistic 0.0.
C7_NoRecordsAllZero ==
  (/\ response.op = "get_agent_usage"
   /\ response.request \in Registered
   /\ History(response.request) = <<>>) =>
     /\ response.status = 200
     /\ response.body = [total_runs |-> 0, failures |-> 0,
                         avg_input_tokens |-> 0, avg_output_tokens |-> 0,
                         p50_latency_ms |-> 0, p95_latency_ms |-> 0]

\* get_agent_usage of an agent that was registered and never recorded.
C7_Witness ==
  /\ response.op = "get_agent_usage"
  /\ response.request \in Registered
  /\ response.request \notin DOMAIN execution_records
  /\ response.status = 200
  /\ response.body.total_runs = 0

\* C8: get_agent_usage of a registered agent returns total_runs = the number
\* of records of its history and failures = the number of them whose success
\* is false, which is the number of executions submitted with success = false
\* (one submitted without success counts as a success).
C8_RunsAndFailures ==
  (response.op = "get_agent_usage" /\ response.request \in Registered) =>
    LET a == response.request
    IN  /\ response.status = 200
        /\ response.body.total_runs = Len(History(a))
        /\ response.body.failures =
             Cardinality({i \in 1..Len(History(a)) : History(a)[i].success = FALSE})
        /\ response.body.failures = ghost[a].failures

\* Three executions, one submitted with success = false and one without a
\* success value.
C8_Witness ==
  /\ response.op = "get_agent_usage"
  /\ response.status = 200
  /\ response.body.total_runs = 3
  /\ response.body.failures = 1
  /\ \E i \in 1..Len(History("a1")) : History("a1")[i].runtime_ms # None

\* C9: get_agent_usage of a registered agent returns p50_latency_ms and
\* p95_latency_ms = the linear-interpolated 50th and 95th percentile of the
\* non-null runtime_ms values of the history, whatever their order; runtimes
\* 100, 200, 300 give p50 = 200.0, p95 = 290.0, total_runs = 3.
C9_LatencyPercentiles ==
  (response.op = "get_agent_usage" /\ response.request \in Registered) =>
    LET a == response.request
        h == History(a)
    IN  /\ response.status = 200
        /\ IsRounded(response.body.p50_latency_ms,
                     Percentile100(h, "runtime_ms", 50), 100, UsageDigits)
        /\ IsRounded(response.body.p95_latency_ms,
                     Percentile100(h, "runtime_ms", 95), 100, UsageDigits)
        /\ (/\ Len(h) = 3
            /\ {h[i].runtime_ms : i \in 1..Len(h)} = {Some(100), Some(200), Some(300)}) =>
              /\ response.body.p50_latency_ms = 200 * Pow10(UsageDigits)
              /\ response.body.p95_latency_ms = 290 * Pow10(UsageDigits)
              /\ response.body.total_runs = 3

\* Runtimes recorded as 300, 100, 200: p50 = 200.0 and p95 = 290.0.
C9_Witness ==
  /\ response.op = "get_agent_usage"
  /\ Len(History("a1")) = 3
  /\ History("a1")[1].runtime_ms = Some(300)
  /\ History("a1")[2].runtime_ms = Some(100)
  /\ History("a1")[3].runtime_ms = Some(200)
  /\ response.body.p50_latency_ms = 20000
  /\ response.body.p95_latency_ms = 29000

\* C10: calculate_percentile returns 0 for an empty sample and x for the
\* sample [x], for every percentile in 0..100.
C10_EmptyAndSingle ==
  response.op = "calculate_percentile" =>
    LET data == response.request.data
    IN  /\ data = <<>> => (response.status = 200 /\ response.body = RatOfInt(0))
        /\ Len(data) = 1 =>
             /\ response.status = 200
             /\ response.body.n = data[1] * response.body.d

\* calculate_percentile([40], 95) returned 40.
C10_Witness ==
  /\ response.op = "calculate_percentile"
  /\ response.request = [data |-> <<40>>, percentile |-> 95]
  /\ response.body = RatOfInt(40)

\* A plain sample as records with the one field "x", for the reference
\* definitions above.
SampleRecords(data) == [i \in 1..Len(data) |-> [x |-> Some(data[i])]]
Minimum(data) == CHOOSE v \in {data[i] : i \in 1..Len(data)} :
                   \A i \in 1..Len(data) : v <= data[i]
Maximum(data) == CHOOSE v \in {data[i] : i \in 1..Len(data)} :
                   \A i \in 1..Len(data) : data[i] <= v

\* C11: for every non-empty sample and every percentile p in 0..100,
\* calculate_percentile returns (never raises) the linear-interpolated
\* percentile of the ascending-sorted sample at rank (p/100)*(n-1), whatever
\* the order of the input; p = 0 gives the minimum, p = 100 the maximum, and
\* the 50th percentile of 10, 20, 30, 40 is 25.
C11_ReferencePercentile ==
  (response.op = "calculate_percentile" /\ response.request.data # <<>>) =>
    LET data == response.request.data
        p == response.request.percentile
    IN  /\ response.status = 200
        /\ response.body.n * 100 = Percentile100(SampleRecords(data), "x", p) * response.body.d
        /\ p = 0 => response.body.n = Minimum(data) * response.body.d
        /\ p = 100 => response.body.n = Maximum(data) * response.body.d
        /\ (/\ Len(data) = 4
            /\ {data[i] : i \in 1..4} = {10, 20, 30, 40}
            /\ p = 50) => response.body.n = 25 * response.body.d

\* calculate_percentile([40, 10, 30, 20], 50) returned 25.
C11_Witness ==
  /\ response.op = "calculate_percentile"
  /\ response.request = [data |-> <<40, 10, 30, 20>>, percentile |-> 50]
  /\ response.status = 200
  /\ response.body.n = 25 * response.body.d

\* C12: list_agents returns exactly one entry per agent of the registry (none
\* twice, none missing), in ascending order of id, whatever the order in
\* which the agents were registered or first recorded.
C12_ListSortedComplete ==
  response.op = "list_agents" =>
    LET agents == response.body.agents
    IN  /\ response.status = 200
        /\ {agents[i].id : i \in 1..Len(agents)} = Registered
        /\ Len(agents) = Cardinality(Registered)
        /\ \A i \in 1..Len(agents) : \A j \in 1..Len(agents) :
             i < j => Rank(agents[i].id) < Rank(agents[j].id)

\* a2 entered the registry before a1, and the list has a1 first.
C12_Witness ==
  /\ response.op = "list_agents"
  /\ metadata_keys = <<"a2", "a1">>
  /\ Len(response.body.agents) = 2
  /\ response.body.agents[1].id = "a1"
  /\ response.body.agents[2].id = "a2"

\* C13: record_execution never rejects a well-formed body and every call
\* appends exactly one record, holding the submitted fields, to the end of
\* the agent's history: also when the execution_id was already used, and
\* when token counts or cost are negative or null.
C13_AlwaysAppendsOne ==
  [][response'.op = "record_execution" =>
       LET a == response'.request.agent_id
           before == History(a)
           after == execution_records'[a]
       IN  /\ response'.status = 200
           /\ response'.body.status = "success"
           /\ Len(after) = Len(before) + 1
           /\ SubSeq(after, 1, Len(before)) = before
           /\ after[Len(after)].cost_usd = response'.request.cost_usd
           /\ after[Len(after)].input_tokens = response'.request.input_tokens
           /\ after[Len(after)].total_tokens = response'.request.total_tokens
           /\ IsNone(response'.request.execution_id)
                \/ after[Len(after)].execution_id = Val(response'.request.execution_id)
           /\ \A b \in Agents \ {a} : History(b) = IF b \in DOMAIN execution_records'
                                                  THEN execution_records'[b] ELSE <<>>
  ]_vars

\* Three records after three calls: two carry the execution_id e1, the second
\* has a negative cost and negative tokens, the third has neither.
C13_Witness ==
  /\ response.op = "record_execution"
  /\ Len(History("a1")) = 3
  /\ History("a1")[1].execution_id = "e1"
  /\ History("a1")[2].execution_id = "e1"
  /\ History("a1")[2].cost_usd = Some(-1)
  /\ History("a1")[2].input_tokens = Some(-10)
  /\ History("a1")[3].cost_usd = None
  /\ agent_metadata["a1"].avg_cost = Some(-1 * Pow10(CostDigits))

\* C14: in every reachable state an agent id is in the registry exactly when,
\* since its most recent successful deletion (or since the start if it was
\* never deleted), a register_agent or a record_execution call was made for it.
C14_RegistryMembership ==
  \A a \in Agents : (a \in Registered) <=> ghost[a].touched

\* a1 was deleted and came back through record_execution alone; a2 was
\* deleted and nothing was done for it since.
C14_Witness ==
  /\ "a1" \in Registered
  /\ ghost["a1"].touched
  /\ ~ghost["a1"].only_recorded
  /\ agent_metadata["a1"].description = "Agent a1"
  /\ Len(History("a1")) = 1
  /\ ghost["a2"].deleted
  /\ ~ghost["a2"].touched
  /\ "a2" \notin Registered
  /\ response.op = "record_execution"
  /\ response.request.agent_id = "a1"

\* C17: get_agent_usage of a registered agent returns avg_input_tokens and
\* avg_output_tokens = the mean of the non-null input_tokens (output_tokens)
\* of the history, rounded to 2 decimals: a record without the field counts
\* neither in the sum nor in the divisor, and a field no record carries
\* gives 0.0.
C17_TokenAverages ==
  (response.op = "get_agent_usage" /\ response.request \in Registered) =>
    LET h == History(response.request)
        MeanOrZero(v, fld) ==
          IF Carrying(h, fld) = {} THEN v = 0
          ELSE IsRounded(v, TotalOver(h, fld, Carrying(h, fld)),
                         Cardinality(Carrying(h, fld)), UsageDigits)
    IN  /\ response.status = 200
        /\ MeanOrZero(response.body.avg_input_tokens, "input_tokens")
        /\ MeanOrZero(response.body.avg_output_tokens, "output_tokens")

\* Three records, input_tokens 10 and 11 and one without: avg_input_tokens is
\* 10.5, and avg_output_tokens is 0.0 as no record has output_tokens.
C17_Witness ==
  /\ response.op = "get_agent_usage"
  /\ Len(History("a1")) = 3
  /\ Cardinality(Carrying(History("a1"), "input_tokens")) = 2
  /\ TotalOver(History("a1"), "input_tokens", Carrying(History("a1"), "input_tokens")) = 21
  /\ response.body.avg_input_tokens = 1050
  /\ response.body.avg_output_tokens = 0

\* The operations of the core, by the names of their tools.
CoreTools ==
  {"list_local_agents", "get_local_agent_usage", "register_agent", "record_execution",
   "delete_agent"}

\* the agent identifier a tools/call carries, None if it was left out
IdOf(request) ==
  CASE request.name \in {"get_local_agent_usage", "delete_agent", "record_execution"} ->
         request.arguments.agent_id
    [] request.name = "register_agent" -> request.arguments.id
    [] OTHER -> Some("none needed")

\* C18: a core error raised while a tools/call is handled on POST / (NotFound
\* from get_local_agent_usage or delete_agent on an unknown agent, a missing
\* required argument) reaches the client as a JSON-RPC error object inside
\* the JSON-RPC response, and as no other kind of response.
C18_Original ==
  (/\ mcp.transport = "post"
   /\ mcp.request.name \in CoreTools
   /\ response.status # 200) => mcp.reply.kind = "jsonrpc_error"

\* The store after, and the success of, the operation over its plain HTTP
\* endpoint, from the current state.
HttpOutcome(name, args, now) ==
  LET same == [meta |-> agent_metadata, keys |-> metadata_keys,
               recs |-> execution_records]
  IN  CASE name = "list_local_agents" ->
             [ok |-> TRUE,
              store |-> [same EXCEPT !.meta = UpdateAll(agent_metadata, execution_records,
                                                        metadata_keys)]]
        [] name = "get_local_agent_usage" ->
             [ok |-> Val(args.agent_id) \in Registered, store |-> same]
        [] name = "register_agent" ->
             [ok |-> TRUE,
              store |-> [meta |-> UpdateAgentAverages(
                                    DictSet(agent_metadata, Val(args.id),
                                            [id |-> Val(args.id),
                                             description |-> args.description,
                                             avg_cost |-> CostUnits(args.avg_cost),
                                             avg_latency |-> LatencyUnits(args.avg_latency)]),
                                    execution_records, Val(args.id)),
                         keys |-> KeysSet(metadata_keys, Val(args.id)),
                         recs |-> execution_records]]
        [] name = "record_execution" ->
             [ok |-> TRUE,
              store |-> RecordExecution(agent_metadata, metadata_keys, execution_records,
                                        AgentExecution(WithId(args, "agent_id")), now)]
        [] name = "delete_agent" ->
             IF Val(args.agent_id) \in Registered
             THEN [ok |-> TRUE,
                   store |-> DeleteFromStore(agent_metadata, metadata_keys,
                                             execution_records, Val(args.agent_id))]
             ELSE [ok |-> FALSE, store |-> same]

\* C19: a core operation called through a JSON-RPC tools/call, with its
\* identifier given, changes registry and ledger as the same operation with
\* the same arguments does over its plain HTTP endpoint from the same state,
\* and succeeds or fails as that one does.
C19_Original ==
  [][(/\ mcp'.transport # "none"
      /\ mcp'.request.name \in CoreTools
      /\ ~IsNone(IdOf(mcp'.request))) =>
        \E now \in Clock :
          LET http == HttpOutcome(mcp'.request.name, mcp'.request.arguments, now)
          IN  /\ agent_metadata' = http.store.meta
              /\ metadata_keys' = http.store.keys
              /\ execution_records' = http.store.recs
              /\ (mcp'.reply.kind = "jsonrpc_result") = http.ok
  ]_vars

\* a reply that tells the client its request was bad: HTTP 400, or the
\* JSON-RPC error Invalid params
BadRequest(reply) ==
  \/ reply.kind = "http_error" /\ reply.http_status = 400
  \/ reply.kind = "jsonrpc_error" /\ reply.code = -32602

\* C20: a request for a core operation that leaves out the agent identifier
\* it requires (agent_id of record_execution, get_agent_usage, delete_agent;
\* id of register_agent) is rejected as a bad request, the 400-equivalent of
\* a ValidationError, and changes neither registry nor ledger.
C20_Original ==
  [][(/\ mcp'.transport = "post"
      /\ mcp'.request.name \in CoreTools
      /\ IsNone(IdOf(mcp'.request))) =>
        /\ BadRequest(mcp'.reply)
        /\ UNCHANGED <<agent_metadata, metadata_keys, execution_records>>
  ]_vars

\* the store as a handler can find it: the loop is free, or the coroutine
\* that holds it stands before one of its own statements
AllIdle == InFlight = {}
LoopFree == event_loop.running = 0

\* C15: delete_agent removes the registry entry and the whole ledger of the
\* agent as one unit, whatever requests are in flight with it: whenever the
\* loop is free for another handler to run, every id with a ledger has a
\* registry entry (no handler finds one removed and the other not), and a
\* delete_agent about to return success leaves neither behind.
C15_DeleteAtomic ==
  /\ LoopFree => DOMAIN execution_records \subseteq Registered
  /\ \A t \in Tasks :
       event_loop.tasks[t].pc = "del_return" =>
         /\ event_loop.tasks[t].request.body \notin Registered
         /\ event_loop.tasks[t].request.body \notin DOMAIN execution_records

\* Task 1 is between the two removals of delete_agent (the registry entry is
\* gone, the ledger of two records is not) while a record_execution for the
\* same agent is in flight in task 2, and task 1 holds the loop.
C15_Witness ==
  /\ event_loop.tasks[1].pc = "del_recs"
  /\ event_loop.tasks[2].pc = "rec_meta"
  /\ event_loop.running = 1
  /\ "a1" \notin Registered
  /\ Len(History("a1")) = 2

\* the stored averages of agent a are the means over its whole history
AveragesCurrent(a) ==
  History(a) # <<>> =>
    /\ a \in Registered
    /\ IF Carrying(History(a), "cost_usd") = {} THEN agent_metadata[a].avg_cost = None
       ELSE IsMeanOf(agent_metadata[a].avg_cost, History(a), "cost_usd", CostDigits)
    /\ IF Carrying(History(a), "runtime_ms") = {} THEN agent_metadata[a].avg_latency = None
       ELSE IsMeanOf(agent_metadata[a].avg_latency, History(a), "runtime_ms",
                     LatencyDigits)

\* C16: the append, the recomputation and the write of the averages of
\* record_execution are one unit with respect to the other requests for the
\* same id: whenever the loop is free for a reader or another
\* record_execution to run, the stored averages are the means over the whole
\* history, and once every request in flight has returned the history holds
\* one record per record_execution accepted since the last deletion.
C16_RecordAtomic ==
  /\ LoopFree => \A a \in Agents : AveragesCurrent(a)
  /\ AllIdle => \A a \in Agents : Len(History(a)) = ghost[a].runs

\* Two record_execution requests that were in flight together have both
\* returned: two records, costs 1 and 2, avg_cost 1.5.
C16_Witness ==
  /\ AllIdle
  /\ event_loop.overlapped
  /\ response.op = "record_execution"
  /\ Len(History("a1")) = 2
  /\ {History("a1")[i].cost_usd : i \in 1..2} = {Some(1), Some(2)}
  /\ agent_metadata["a1"].avg_cost = Some(1500000)
  /\ ghost["a1"].runs = 2

\* the history of agent a after the step
HistoryAfter(a) ==
  IF a \in DOMAIN execution_records' THEN execution_records'[a] ELSE <<>>

\* C21: the history of an agent is append-only: every request other than a
\* delete_agent of that agent leaves the history it had as a prefix of the
\* history it has afterwards, no record changed, dropped or moved, and a
\* record_execution puts its record behind all earlier ones.
C21_AppendOnly ==
  [][\A a \in Agents :
       ~(response'.op = "delete_agent" /\ response'.request = a) =>
         /\ Len(History(a)) <= Len(HistoryAfter(a))
         /\ SubSeq(HistoryAfter(a), 1, Len(History(a))) = History(a)
         /\ (response'.op = "record_execution" /\ response'.request.agent_id = a) =>
              /\ Len(HistoryAfter(a)) = Len(History(a)) + 1
              /\ HistoryAfter(a)[Len(HistoryAfter(a))].cost_usd = response'.request.cost_usd
              /\ HistoryAfter(a)[Len(HistoryAfter(a))].runtime_ms
                   = response'.request.runtime_ms
  ]_vars

\* Three calls for a1, with cost 2, then cost 1, then none: the history has
\* them in that order.
C21_Witness ==
  /\ response.op = "record_execution"
  /\ Len(History("a1")) = 3
  /\ History("a1")[1].cost_usd = Some(2)
  /\ History("a1")[2].cost_usd = Some(1)
  /\ History("a1")[3].cost_usd = None
  /\ response.request.cost_usd = None

\* C22: record_execution for an id that is not in the registry creates the
\* entry with the description "Agent {id}"; for an id that is in the registry
\* it leaves the description (and the id) of the entry as they were.
C22_AutoCreateKeepsDescription ==
  [][response'.op = "record_execution" =>
       LET a == response'.request.agent_id
       IN  /\ a \in DOMAIN agent_metadata'
           /\ agent_metadata'[a].id = a
           /\ IF a \in Registered
              THEN agent_metadata'[a].description = agent_metadata[a].description
              ELSE agent_metadata'[a].description = "Agent " \o a
  ]_vars

\* a1 was registered as "d2" and then recorded; a2 came in through
\* record_execution alone.
C22_Witness ==
  /\ response.op = "record_execution"
  /\ response.request.agent_id = "a1"
  /\ Registered = {"a1", "a2"}
  /\ agent_metadata["a1"].description = "d2"
  /\ Len(History("a1")) = 2
  /\ agent_metadata["a2"].description = "Agent a2"
  /\ Len(History("a2")) = 1

\* C23: the two averages are kept apart: for an agent that only
\* record_execution calls have touched, avg_cost is the mean of the non-null
\* cost_usd of the history and absent when no record has one, whatever the
\* runtime_ms values are, and avg_latency likewise from the runtime_ms values
\* alone; so one of them can be there without the other.
C23_AveragesIndependent ==
  \A a \in Registered :
    ghost[a].only_recorded =>
      /\ IF Carrying(History(a), "cost_usd") = {}
         THEN agent_metadata[a].avg_cost = None
         ELSE IsMeanOf(agent_metadata[a].avg_cost, History(a), "cost_usd", CostDigits)
      /\ IF Carrying(History(a), "runtime_ms") = {}
         THEN agent_metadata[a].avg_latency = None
         ELSE IsMeanOf(agent_metadata[a].avg_latency, History(a), "runtime_ms",
                       LatencyDigits)

\* Three records with runtimes 100, 200, 200 and no cost: avg_latency
\* 166.67, no avg_cost.
C23_Witness ==
  /\ "a1" \in Registered
  /\ ghost["a1"].only_recorded
  /\ Len(History("a1")) = 3
  /\ Carrying(History("a1"), "cost_usd") = {}
  /\ agent_metadata["a1"].avg_cost = None
  /\ agent_metadata["a1"].avg_latency = Some(16667)

\* C24: the execution_id in the response of record_execution is the
\* execution_id of the record the call appended, when the caller sent one
\* and when the caller sent none and an identifier was made up for the record.
C24_Original ==
  [][response'.op = "record_execution" =>
       LET after == HistoryAfter(response'.request.agent_id)
       IN  response'.body.execution_id = Some(after[Len(after)].execution_id)
  ]_vars

\* C25: a register_agent that supplies avg_cost (avg_latency) for an agent
\* whose history has a non-null cost_usd (runtime_ms) stores the mean
\* recomputed from the history and not the supplied value; the supplied
\* value stays stored only when the history has no sample of the field.
C25_SuppliedAverageOverridden ==
  [][response'.op = "register_agent" =>
       LET a == response'.request.id
           h == History(a)
       IN  /\ HistoryAfter(a) = h
           /\ ~IsNone(response'.request.avg_cost) =>
                IF Carrying(h, "cost_usd") # {}
                THEN IsMeanOf(agent_metadata'[a].avg_cost, h, "cost_usd", CostDigits)
                ELSE agent_metadata'[a].avg_cost = CostUnits(response'.request.avg_cost)
           /\ ~IsNone(response'.request.avg_latency) =>
                IF Carrying(h, "runtime_ms") # {}
                THEN IsMeanOf(agent_metadata'[a].avg_latency, h, "runtime_ms",
                              LatencyDigits)
                ELSE agent_metadata'[a].avg_latency
                       = LatencyUnits(response'.request.avg_latency)
  ]_vars

\* register_agent with avg_cost 5 and avg_latency 7 over a history with the
\* costs 1 and 2 and no runtime: avg_cost is 1.5, avg_latency is 7.
C25_Witness ==
  /\ response.op = "register_agent"
  /\ response.request.avg_cost = Some(5)
  /\ response.request.avg_latency = Some(7)
  /\ Len(History("a1")) = 2
  /\ Carrying(History("a1"), "runtime_ms") = {}
  /\ agent_metadata["a1"].avg_cost = Some(1500000)
  /\ agent_metadata["a1"].avg_latency = Some(700)

\* the per-agent recompute of list_agents finds nothing to change
RecomputeFixpoint ==
  \A a \in Registered :
    UpdateAgentAverages(agent_metadata, execution_records, a) = agent_metadata

\* C26: list_agents and get_agent_usage change nothing: from every reachable
\* state they leave the registry, every stored average included, and the
\* ledger as they were, every reachable state being a fixpoint of the
\* recompute that list_agents runs for each agent before it returns.
C26_ReadsChangeNothing ==
  [][/\ response'.op \in {"list_agents", "get_agent_usage"} =>
          UNCHANGED <<agent_metadata, metadata_keys, execution_records>>
     /\ RecomputeFixpoint'
  ]_vars

\* list_agents over an agent with the costs 1 and 2 and a supplied
\* avg_latency 7 that no runtime backs: it reports 1.5 and 7 and the stored
\* values are the same.
C26_Witness ==
  /\ response.op = "list_agents"
  /\ Len(History("a1")) = 2
  /\ Carrying(History("a1"), "runtime_ms") = {}
  /\ agent_metadata["a1"].avg_cost = Some(1500000)
  /\ agent_metadata["a1"].avg_latency = Some(700)
  /\ response.body.agents[1].avg_cost = Some(1500000)
  /\ response.body.agents[1].avg_latency = Some(700)

\* the average record_execution stores for a history of this one value
MeanOfOne(o, digits) == IF IsNone(o) THEN None ELSE Some(Val(o) * Pow10(digits))

\* An agent that stands in the registry as record_execution created it has
\* one record per record_execution since its last deletion, and averages
\* that come from these records alone.
CreatedByRecord ==
  \A a \in Registered :
    agent_metadata[a].description = "Agent " \o a =>
      /\ Len(History(a)) = ghost[a].runs
      /\ IF Carrying(History(a), "cost_usd") = {}
         THEN agent_metadata[a].avg_cost = None
         ELSE IsMeanOf(agent_metadata[a].avg_cost, History(a), "cost_usd", CostDigits)
      /\ IF Carrying(History(a), "runtime_ms") = {}
         THEN agent_metadata[a].avg_latency = None
         ELSE IsMeanOf(agent_metadata[a].avg_latency, History(a), "runtime_ms",
                       LatencyDigits)

\* C27: a record_execution for an id whose last request was a successful
\* delete_agent makes the agent anew: the history is the one new record, the
\* description is "Agent {id}", and each stored average comes from that
\* record alone, absent when the record has no value for it; nothing of the
\* history, the description or the averages from before the delete is left,
\* and so it stays while further records follow.
C27_RecreatedFromScratch ==
  [][/\ (/\ response'.op = "record_execution"
         /\ ghost[response'.request.agent_id].deleted) =>
           LET a == response'.request.agent_id
           IN  /\ Len(HistoryAfter(a)) = 1
               /\ HistoryAfter(a)[1].cost_usd = response'.request.cost_usd
               /\ HistoryAfter(a)[1].runtime_ms = response'.request.runtime_ms
               /\ a \in DOMAIN agent_metadata'
               /\ agent_metadata'[a].description = "Agent " \o a
               /\ agent_metadata'[a].avg_cost
                    = MeanOfOne(response'.request.cost_usd, CostDigits)
               /\ agent_metadata'[a].avg_latency
                    = MeanOfOne(response'.request.runtime_ms, LatencyDigits)
     /\ CreatedByRecord'
  ]_vars

\* a1 had been registered (the descriptions registered are d1 and d2) and
\* deleted; a record_execution with cost 2 and no runtime gave it the default
\* description, a history of one record, avg_cost 2 and no avg_latency.
C27_Witness ==
  /\ response.op = "record_execution"
  /\ response.request.cost_usd = Some(2)
  /\ ~ghost["a1"].only_recorded
  /\ ~ghost["a1"].deleted
  /\ ghost["a1"].runs = 1
  /\ Len(History("a1")) = 1
  /\ agent_metadata["a1"].description = "Agent a1"
  /\ agent_metadata["a1"].avg_cost = Some(2000000)
  /\ agent_metadata["a1"].avg_latency = None

\* the agent a writing request is about
Target(r) ==
  CASE r.op = "record_execution" -> r.request.agent_id
    [] r.op = "register_agent" -> r.request.id
    [] r.op = "delete_agent" -> r.request

\* C28: record_execution, register_agent and delete_agent for agent A leave
\* every other agent B as it was: in or out of the registry, its description
\* and stored averages, and its history.
C28_OtherAgentsUntouched ==
  [][response'.op \in {"record_execution", "register_agent", "delete_agent"} =>
       \A b \in Agents \ {Target(response')} :
         /\ (b \in Registered) <=> (b \in DOMAIN agent_metadata')
         /\ b \in Registered => agent_metadata'[b] = agent_metadata[b]
         /\ (b \in DOMAIN execution_records) <=> (b \in DOMAIN execution_records')
         /\ HistoryAfter(b) = History(b)
  ]_vars

\* a1 was just deleted; a2, registered as d2 with two records, still has its
\* description, its mean cost and its history.
C28_Witness ==
  /\ response.op = "delete_agent"
  /\ response.request = "a1"
  /\ response.status = 200
  /\ "a1" \notin Registered
  /\ "a2" \in Registered
  /\ agent_metadata["a2"].description = "d2"
  /\ Len(History("a2")) = 2
  /\ agent_metadata["a2"].avg_cost = Some(1500000)

\* C29: in every reachable state get_agent_usage of a registered agent
\* reports as total_runs the number of record_execution calls made for the
\* agent since it was last deleted (a register_agent in between does not
\* reset it), and failures between 0 and total_runs.
C29_RunsSinceDeletion ==
  \A a \in Registered :
    LET r == GetAgentUsageInternal(agent_metadata, execution_records, a)
    IN  /\ r.status = 200
        /\ r.body.total_runs = ghost[a].runs
        /\ 0 <= r.body.failures
        /\ r.body.failures <= r.body.total_runs
        /\ (response.op = "get_agent_usage" /\ response.request = a) =>
             response.body = r.body

\* a1 was registered again after two record_execution calls, one of them a
\* failure: get_agent_usage reports total_runs 2 and failures 1.
C29_Witness ==
  /\ response.op = "register_agent"
  /\ agent_metadata["a1"].description = "d1"
  /\ ghost["a1"].runs = 2
  /\ ghost["a1"].failures = 1
  /\ GetAgentUsageInternal(agent_metadata, execution_records, "a1").body.total_runs = 2
  /\ GetAgentUsageInternal(agent_metadata, execution_records, "a1").body.failures = 1

\* the percentiles at which the order of the results is compared
CheckedPercentiles == <<0, 25, 50, 75, 95, 100>>

\* x <= y for two fractions with positive denominators
RatLeq(x, y) == x.n * y.d <= y.n * x.d

====
